---------------------------- MODULE Spec2Model ----------------------------
(***************************************************************************)
(* Model of ema_workbench/em_framework/outcomes.py: the outcome classes    *)
(* (AbstractOutcome, ScalarOutcome, TimeSeriesOutcome), the deprecated     *)
(* Outcome factory and create_outcomes.                                    *)
(*                                                                         *)
(* The module is Python 2 code (it uses basestring); the model follows     *)
(* the Python 2 semantics of the builtins the code relies on (callable,    *)
(* len, isinstance, all, reduce, subscripting, ** argument binding).       *)
(***************************************************************************)
EXTENDS Integers, Sequences, FiniteSets, TLC

VARIABLES
    self,   \* the outcome instance under consideration: <<>> before its
            \* __init__ has completed, <<object>> afterwards
    last    \* the last operation: its inputs and its observable outcome

vars == <<self, last>>

(***************************************************************************)
(* Bounds of the model.                                                    *)
(***************************************************************************)
MaxNames == 2   \* longest variable_name sequence
MaxVals  == 2   \* longest values sequence handed to process
MaxRows  == 2   \* most rows of a table handed to create_outcomes

(***************************************************************************)
(* AbstractOutcome.MINIMIZE / MAXIMIZE / INFO                              *)
(***************************************************************************)
MINIMIZE == -1
MAXIMIZE == 1
INFO     == 0

(***************************************************************************)
(* Python values.  Every value is a record of the same shape:              *)
(*   t  the type tag: "none" "str" "int" "list" "set" "dict" "func" "res"  *)
(*   s  the text of a str, the identity of a func                          *)
(*   i  the number of an int                                               *)
(*   l  the elements of a list, set or dict (values), the positional       *)
(*      arguments recorded in a "res"                                      *)
(*   kw the keyword arguments recorded in a "res": a set of <<name, value>>*)
(***************************************************************************)
PyNone     == [t |-> "none", s |-> "", i |-> 0, l |-> <<>>, kw |-> {}]
PyStr(x)   == [t |-> "str",  s |-> x,  i |-> 0, l |-> <<>>, kw |-> {}]
PyInt(n)   == [t |-> "int",  s |-> "", i |-> n, l |-> <<>>, kw |-> {}]
PyList(q)  == [t |-> "list", s |-> "", i |-> 0, l |-> q,    kw |-> {}]
PySet(q)   == [t |-> "set",  s |-> "", i |-> 0, l |-> q,    kw |-> {}]
PyDict(q)  == [t |-> "dict", s |-> "", i |-> 0, l |-> q,    kw |-> {}]
PyFunc(id) == [t |-> "func", s |-> id, i |-> 0, l |-> <<>>, kw |-> {}]

\* the outcome of evaluating something: a returned value or a raised exception
Return(v) == [tag |-> "return", val |-> v,      exc |-> ""]
Raise(e)  == [tag |-> "raise",  val |-> PyNone, exc |-> e]

\* bool(v)
Truthy(v) ==
    CASE v.t = "none" -> FALSE
      [] v.t = "int"  -> v.i # 0
      [] v.t = "str"  -> v.s # ""
      [] v.t \in {"list", "set", "dict"} -> v.l # <<>>
      [] OTHER -> TRUE

\* isinstance(v, basestring)
IsString(v) == v.t = "str"

\* callable(v)
Callable(v) == v.t = "func"

\* whether len(v) is defined for v (else TypeError).  A str has a length
\* too, but no str ever reaches len here: process tests a str variable_name
\* first, and raw values are numbers or containers.
Sized(v) == v.t \in {"list", "set", "dict"}

\* len(v) for a sized v
PyLen(v) == Len(v.l)

\* all(isinstance(elem, basestring) for elem in v), v iterable and not a str
AllStrings(v) == \A k \in 1..Len(v.l) : IsString(v.l[k])


(***************************************************************************)
(* Callables handed in as `function`.  Three stand for the shapes a        *)
(* post-processing function can have:                                      *)
(*   tag   lambda *args, **kwargs: (args, kwargs)   accepts any call and   *)
(*         returns what it was called with                                 *)
(*   len   the builtin: one positional argument, no keywords; TypeError    *)
(*         on any other call and on an argument without a length          *)
(*   fail  raises RuntimeError whatever it is called with                  *)
(* `reduce` is the Python 2 builtin the name resolves to in                *)
(* TimeSeriesOutcome.__init__.                                             *)
(***************************************************************************)
reduce == PyFunc("reduce")

\* f(*args, **kwargs) reaches f's body: f is callable and every keyword is a
\* string (Python refuses other keywords with TypeError before the call)
Invoked(f, kwargs) == Callable(f) /\ \A p \in kwargs : IsString(p[1])

\* the outcome of f(*args, **kwargs); kwargs is a set of <<key, value>>
Call(f, args, kwargs) ==
    IF ~Invoked(f, kwargs) THEN Raise("TypeError")
    ELSE CASE f.s = "tag" ->
                Return([t |-> "res", s |-> "tag", i |-> 0, l |-> args,
                        kw |-> {<<p[1].s, p[2]>> : p \in kwargs}])
           [] f.s = "len" ->
                IF kwargs # {} \/ Len(args) # 1 THEN Raise("TypeError")
                ELSE IF ~Sized(args[1]) THEN Raise("TypeError")
                ELSE Return(PyInt(PyLen(args[1])))
           [] f.s = "fail" -> Raise("RuntimeError")
           [] OTHER -> Raise("TypeError")

(***************************************************************************)
(* Outcome objects: the class and the instance __dict__.                   *)
(***************************************************************************)
\* NamedObject.__init__(name): the base class supplies the name attribute
NamedObjectInit(name) == ("name" :> name)

Object(cls, name, kind, vname, function) ==
    [cls   |-> cls,
     attrs |-> NamedObjectInit(name) @@ ("kind" :> kind)
               @@ ("_variable_name" :> vname)
               @@ ("function" :> function)]

\* the variable_name property (getter)
variable_name(o) ==
    IF o.attrs["_variable_name"] # PyNone
    THEN o.attrs["_variable_name"]
    ELSE o.attrs["name"]

\* the variable_name property (setter)
set_variable_name(o, name) ==
    [o EXCEPT !.attrs["_variable_name"] = name]

\* the result of an __init__: what it raised, or the constructed object
Built(o)  == [out |-> Return(PyNone), obj |-> <<o>>]
Failed(e) == [out |-> Raise(e),       obj |-> <<>>]

\* AbstractOutcome.__init__ (NamedObject.__init__ stores name)
AbstractOutcomeInit(cls, name, kind, vname, function) ==
    IF function # PyNone /\ ~Callable(function) THEN Failed("ValueError")
    ELSE IF Truthy(vname) /\ ~IsString(vname) /\ ~Sized(vname)
         THEN Failed("TypeError")    \* iterating over a non-iterable
    ELSE IF Truthy(vname) /\ ~IsString(vname) /\ ~AllStrings(vname)
         THEN Failed("ValueError")
    ELSE Built(set_variable_name(Object(cls, name, kind, PyNone, function),
                                 vname))

\* ScalarOutcome.__init__
ScalarOutcomeInit(name, kind, vname, function) ==
    AbstractOutcomeInit("ScalarOutcome", name, kind, vname, function)

\* TimeSeriesOutcome.__init__
TimeSeriesOutcomeInit(name, kind, vname, function) ==
    LET base == AbstractOutcomeInit("TimeSeriesOutcome", name, kind, vname,
                                    function)
    IN  IF base.out.tag = "raise" THEN base
        ELSE IF (~(base.obj[1].attrs["kind"] = PyInt(INFO)))
                /\ ~Callable(reduce)
             THEN Failed("ValueError")
        ELSE base

\* cls(name, kind, variable_name, function)
New(cls, name, kind, vname, function) ==
    IF cls = "ScalarOutcome"
    THEN ScalarOutcomeInit(name, kind, vname, function)
    ELSE TimeSeriesOutcomeInit(name, kind, vname, function)

(***************************************************************************)
(* AbstractOutcome.process                                                 *)
(***************************************************************************)
\* what process did: its outcome, the calls of self.function that reached
\* the function, and whether print(e) ran
Did(out, calls, printed) ==
    [out |-> out, calls |-> calls, printed |-> printed]

\* the record of one call of self.function
CallOf(args, kwargs) == [args |-> args, kwargs |-> kwargs]

\* Kwargs with a fault: names paired with the values in reverse order
KwargsReversed(var_names, values) ==
    {<<var_names.l[k], values.l[PyLen(var_names) + 1 - k]>> : k \in
        {j \in 1..PyLen(var_names) :
            \A m \in (j+1)..PyLen(var_names) : var_names.l[m] # var_names.l[j]}}

\* {var_names[i]: values[i] for i in range(len(var_names))}: a later entry
\* with the same key replaces an earlier one
Kwargs(var_names, values) ==
    {<<var_names.l[k], values.l[k]>> : k \in
        {j \in 1..PyLen(var_names) :
            \A m \in (j+1)..PyLen(var_names) : var_names.l[m] # var_names.l[j]}}

\* ProcessSingle with a fault: the values are not handed to the function
ProcessSingleNoArgument(o, values) ==
    LET f == o.attrs["function"]
    IN  [out |-> Call(f, <<>>, {}),
         calls |-> IF Invoked(f, {}) THEN <<[args |-> <<>>, kwargs |-> {}]>>
                   ELSE <<>>,
         printed |-> FALSE]

\* the branch for a variable_name that is a str
ProcessSingle(o, values) ==
    LET f == o.attrs["function"]
    IN  Did(Call(f, <<values>>, {}),
            IF Invoked(f, {}) THEN <<CallOf(<<values>>, {})>> ELSE <<>>,
            FALSE)

\* ArityMismatch with a fault: values without a length are let through
ArityMismatchSizedOnly(len_var, len_val) ==
    len_val # -1 /\ len_var # len_val

\* len_var != len_val
ArityMismatch(len_var, len_val) == len_var # len_val

\* the branch for any other variable_name.  len_val is None when values has
\* no length; None is written -1 here, which no length equals.
ProcessMultiple(o, values) ==
    LET f         == o.attrs["function"]
        var_names == variable_name(o)
        len_var   == PyLen(var_names)
        len_val   == IF Sized(values) THEN PyLen(values) ELSE -1
        kwargs    == Kwargs(var_names, values)
    IN  IF ~Sized(var_names) THEN Did(Raise("TypeError"), <<>>, FALSE)
        ELSE IF ArityMismatch(len_var, len_val)
             THEN Did(Raise("ValueError"), <<>>, FALSE)
        ELSE IF len_var > 0 /\ values.t = "set"
             THEN Did(Raise("TypeError"), <<>>, TRUE)   \* values[i]
        ELSE IF len_var > 0 /\ values.t = "dict"
             THEN Did(Raise("KeyError"), <<>>, FALSE)   \* values[i]
        ELSE Did(Call(f, <<>>, kwargs),
                 IF Invoked(f, kwargs) THEN <<CallOf(<<>>, kwargs)>> ELSE <<>>,
                 FALSE)

\* the body of the outer try
ProcessBody(o, values) ==
    IF IsString(variable_name(o))
    THEN ProcessSingle(o, values)
    ELSE ProcessMultiple(o, values)

\* process with a fault: no except clause
processWithoutFallback(o, values) == ProcessBody(o, values)

\* process(values): except TypeError: return values
process(o, values) ==
    LET body == ProcessBody(o, values)
    IN  IF body.out = Raise("TypeError")
        THEN [body EXCEPT !.out = Return(values)]
        ELSE body

(***************************************************************************)
(* AbstractOutcome.__eq__                                                  *)
(***************************************************************************)
hasattr(o, key) == key \in DOMAIN o.attrs
getattr(o, key) == o.attrs[key]

\* Eq with a fault: the classes are not compared
EqAttributesOnly(a, other) ==
    \A key \in DOMAIN a.attrs :
        /\ hasattr(a, key) = hasattr(other, key)
        /\ getattr(a, key) = getattr(other, key)

Eq(a, other) ==
    /\ \A key \in DOMAIN a.attrs :
          /\ hasattr(a, key) = hasattr(other, key)
          /\ getattr(a, key) = getattr(other, key)
    /\ a.cls = other.cls

(***************************************************************************)
(* The module-level factories.                                             *)
(***************************************************************************)
\* Outcome(name, time): the warning issued and the constructor's result
Outcome(name, time) ==
    IF time
    THEN [warnings |-> <<"Deprecated, use TimeSeriesOutcome instead">>,
          new |-> ScalarOutcomeInit(PyStr(name), PyInt(INFO), PyNone, PyNone)]
    ELSE [warnings |-> <<"Deprecated, use ScalarOutcome instead">>,
          new |-> TimeSeriesOutcomeInit(PyStr(name), PyInt(INFO), PyNone,
                                        PyNone)]

\* what create_outcomes did: its outcome, the list returned, the message of
\* the error raised
Created(out, made, msg) == [out |-> out, made |-> made, msg |-> msg]

\* RowOutcome with a fault: the two types are swapped
RowOutcomeSwapped(name, kind) ==
    IF kind = "scalar"
    THEN TimeSeriesOutcomeInit(PyStr(name), PyInt(INFO), PyNone, PyNone)
    ELSE IF kind = "timeseries"
    THEN ScalarOutcomeInit(PyStr(name), PyInt(INFO), PyNone, PyNone)
    ELSE Failed("ValueError")

\* the dispatch on a row's type
RowOutcome(name, kind) ==
    IF kind = "scalar"
    THEN ScalarOutcomeInit(PyStr(name), PyInt(INFO), PyNone, PyNone)
    ELSE IF kind = "timeseries"
    THEN TimeSeriesOutcomeInit(PyStr(name), PyInt(INFO), PyNone, PyNone)
    ELSE Failed("ValueError")    \* 'unknown type for ' + name

\* the loop over outcomes.iterrows(), from row k on
RECURSIVE CreateRows(_, _, _)
CreateRows(rows, k, temp_outcomes) ==
    IF k > Len(rows) THEN Created(Return(PyNone), temp_outcomes, <<>>)
    ELSE LET name == rows[k].name
             kind == rows[k].type
             new  == RowOutcome(name, kind)
         IN  IF new.out.tag = "raise"
             THEN Created(new.out, <<>>,
                          IF kind \in {"scalar", "timeseries"} THEN <<>>
                          ELSE <<"unknown type for ", name>>)
             ELSE CreateRows(rows, k + 1, temp_outcomes \o new.obj)

\* create_outcomes(outcomes), outcomes already a DataFrame
create_outcomes(table) ==
    IF "name" \notin table.columns
    THEN Created(Raise("ValueError"), <<>>, <<"no name column in dataframe">>)
    ELSE IF "type" \notin table.columns
    THEN Created(Raise("ValueError"), <<>>, <<"no type column in dataframe">>)
    ELSE CreateRows(table.rows, 1, <<>>)

(***************************************************************************)
(* Inputs.                                                                 *)
(***************************************************************************)
SeqsUpTo(S, n) == UNION {[1..k -> S] : k \in 0..n}

Classes == {"ScalarOutcome", "TimeSeriesOutcome"}
Names   == {"x", "y"}
Kinds   == {MINIMIZE, INFO, MAXIMIZE}

\* elements of a variable_name sequence: names, and a non-string
NameElems == {PyStr("a"), PyStr("b"), PyInt(1)}

\* what a caller may pass as variable_name: nothing, a str (one empty),
\* numbers (one falsy), sequences
VariableNames ==
    {PyNone, PyStr("a"), PyStr(""), PyInt(0), PyInt(5)}
    \cup {PyList(q) : q \in SeqsUpTo(NameElems, MaxNames)}

\* what a caller may pass as function: nothing, a non-callable, callables
Functions ==
    {PyNone, PyInt(5), PyFunc("tag"), PyFunc("len"), PyFunc("fail")}

\* raw values handed to process: a number, sequences, a set and a mapping
\* keyed by variable name
ValueElems == {PyInt(1), PyInt(2)}
Values ==
    {PyInt(7), PySet(<<PyInt(1)>>), PyDict(<<PyInt(1)>>)}
    \cup {PyList(q) : q \in SeqsUpTo(ValueElems, MaxVals)}

\* the outcomes an instance is compared with: both classes, one name, two
\* kinds, three shapes of variable_name, with and without a function
Others ==
    {n.obj[1] : n \in
        {m \in {New(c, PyStr("x"), PyInt(k), v, f) :
                    c \in Classes, k \in {INFO, MAXIMIZE},
                    v \in {PyNone, PyStr("a"),
                           PyList(<<PyStr("a"), PyStr("b")>>)},
                    f \in {PyNone, PyFunc("tag")}} :
            m.out.tag = "return"}}

\* tables handed to create_outcomes
RowTypes == {"scalar", "timeseries", "bogus"}
Tables ==
    [columns : {{"name", "type"}, {"name"}, {"type"}, {}},
     rows    : SeqsUpTo([name : Names, type : RowTypes], MaxRows)]

(***************************************************************************)
(* State machine.                                                          *)
(***************************************************************************)
Idle ==
    [op |-> "", cls |-> "", name |-> "", kind |-> PyNone, vname |-> PyNone,
     function |-> PyNone, values |-> PyNone, out |-> Return(PyNone),
     calls |-> <<>>, printed |-> FALSE, other |-> <<>>, eq |-> <<>>,
     time |-> FALSE, warnings |-> <<>>,
     table |-> [columns |-> {}, rows |-> <<>>], made |-> <<>>, msg |-> <<>>]

Init ==
    /\ self = <<>>
    /\ last = Idle

\* cls(name, kind, variable_name, function): __init__ runs once per instance
Construct(cls, name, kind, vname, function) ==
    /\ self = <<>>
    /\ LET new == New(cls, PyStr(name), PyInt(kind), vname, function)
       IN  /\ self' = new.obj
           /\ last' = [Idle EXCEPT !.op = "__init__", !.cls = cls,
                                   !.name = name, !.kind = PyInt(kind),
                                   !.vname = vname, !.function = function,
                                   !.out = new.out]

\* self.variable_name = vname
SetVariableName(vname) ==
    /\ self # <<>>
    /\ self' = <<set_variable_name(self[1], vname)>>
    /\ last' = [Idle EXCEPT !.op = "variable_name", !.vname = vname]

\* self.process(values)
Process(values) ==
    /\ self # <<>>
    /\ LET did == process(self[1], values)
       IN  last' = [Idle EXCEPT !.op = "process", !.values = values,
                               !.out = did.out, !.calls = did.calls,
                               !.printed = did.printed]
    /\ UNCHANGED self

\* self == other and other == self
Equals(other) ==
    /\ self # <<>>
    /\ last' = [Idle EXCEPT !.op = "__eq__", !.other = <<other>>,
                            !.eq = <<Eq(self[1], other), Eq(other, self[1])>>]
    /\ UNCHANGED self

\* Outcome(name, time)
CallOutcome(name, time) ==
    /\ LET made == Outcome(name, time)
       IN  /\ self' = made.new.obj
           /\ last' = [Idle EXCEPT !.op = "Outcome", !.name = name,
                                   !.time = time, !.out = made.new.out,
                                   !.warnings = made.warnings]

\* create_outcomes(table)
CallCreateOutcomes(table) ==
    /\ LET did == create_outcomes(table)
       IN  last' = [Idle EXCEPT !.op = "create_outcomes", !.table = table,
                               !.out = did.out, !.made = did.made,
                               !.msg = did.msg]
    /\ UNCHANGED self

Next ==
    \/ \E cls \in Classes, name \in Names, kind \in Kinds,
          vname \in VariableNames, function \in Functions :
            Construct(cls, name, kind, vname, function)
    \/ \E vname \in VariableNames : SetVariableName(vname)
    \/ \E values \in Values : Process(values)
    \/ \E other \in Others : Equals(other)

Spec == Init /\ [][Next]_vars

FactoryNext ==
    \/ \E name \in Names, time \in BOOLEAN : CallOutcome(name, time)
    \/ \E table \in Tables : CallCreateOutcomes(table)

FactorySpec == Init /\ [][FactoryNext]_vars

(***************************************************************************)
(* Properties.  After a process or __eq__ call `self` is the instance the  *)
(* call ran on (neither changes it), and `last` holds the call's inputs    *)
(* and outcome.                                                            *)
(***************************************************************************)
Processed == last.op = "process"
Function  == self[1].attrs["function"]
VarName   == variable_name(self[1])

\* variable_name is a sequence (of names or of anything else)
IsSequence(v) == v.t = "list"

\* a str, or a sequence whose every element is a str
ValidVariableName(v) == IsString(v) \/ (IsSequence(v) /\ AllStrings(v))

\* the names of a sequence are pairwise different
DistinctNames(v) ==
    \A j, k \in 1..PyLen(v) : j # k => v.l[j] # v.l[k]

\* the number of names differs from the number of values (values without a
\* length count as a mismatch)
Mismatch(v, values) == ~Sized(values) \/ PyLen(values) # PyLen(v)

--------------------------------------------------------------------------
C1_Case == Processed /\ IsString(VarName) /\ Callable(Function)

\* C1, as stated: with a single-string variable_name and a callable f,
\* process(values) is f(values) for every values, a TypeError raised by f
\* included.
C1_ProcessIsFunction ==
    C1_Case => last.out = Call(Function, <<last.values>>, {})

\* C1, amended: with a single-string variable_name and a callable f,
\* process(values) calls f once, with values as its only positional
\* argument and no keyword, and its outcome is f's (the value f returns, or
\* the error f raises), except that when the call raises TypeError process
\* returns values unchanged.
C1_ProcessIsFunctionUnlessTypeError ==
    C1_Case =>
        LET r == Call(Function, <<last.values>>, {})
        IN  /\ last.calls = <<CallOf(<<last.values>>, {})>>
            /\ last.out = IF r = Raise("TypeError")
                          THEN Return(last.values) ELSE r

\* C1 witness: f returned a value built from values, and process returned it
C1_Witness ==
    /\ C1_Case
    /\ Function = PyFunc("tag")
    /\ last.values = PyList(<<PyInt(1), PyInt(2)>>)
    /\ last.out.tag = "return"
    /\ last.out.val.l = <<last.values>>

--------------------------------------------------------------------------
C2_Case ==
    /\ Processed
    /\ IsSequence(VarName) /\ AllStrings(VarName) /\ DistinctNames(VarName)
    /\ Callable(Function)
    /\ IsSequence(last.values) /\ PyLen(last.values) = PyLen(VarName)

\* C2: with variable_name a sequence of n names (n = 1 included) and values a
\* sequence of length n, process calls f once with the keyword arguments
\* name[i] = values[i] and no positional argument, and returns what that
\* call returns.
C2_ProcessPairsNamesWithValues ==
    C2_Case =>
        LET kwargs == {<<VarName.l[k], last.values.l[k]>> :
                          k \in 1..PyLen(VarName)}
            r      == Call(Function, <<>>, kwargs)
        IN  /\ last.calls = <<CallOf(<<>>, kwargs)>>
            /\ r.tag = "return" => last.out = r

\* C2 witness: process([1, 2]) with names [a, b] returned f(a=1, b=2)
C2_Witness ==
    /\ C2_Case
    /\ VarName = PyList(<<PyStr("a"), PyStr("b")>>)
    /\ last.values = PyList(<<PyInt(1), PyInt(2)>>)
    /\ Function = PyFunc("tag")
    /\ last.out.tag = "return"
    /\ last.out.val.kw = {<<"a", PyInt(1)>>, <<"b", PyInt(2)>>}

--------------------------------------------------------------------------
C3_Case == Processed /\ Function = PyNone

\* C3, as stated: without a function process(values) returns values
\* unchanged, whatever variable_name and values are.
C3_NoFunctionIsIdentity ==
    C3_Case => last.out = Return(last.values)

\* C3, amended: without a function process(values) returns values unchanged
\* when variable_name is absent or a single string, and when variable_name
\* is a sequence of names and values is a sequence of the same length; when
\* variable_name is a sequence of names and the number of values differs
\* from the number of names (values without a length included), process
\* raises ValueError instead.
C3_NoFunctionIsIdentityUnlessArity ==
    C3_Case =>
        /\ IsString(VarName) => last.out = Return(last.values)
        /\ IsSequence(VarName) /\ AllStrings(VarName) =>
              IF Mismatch(VarName, last.values)
              THEN last.out = Raise("ValueError")
              ELSE IsSequence(last.values) => last.out = Return(last.values)

\* C3 witness: no function, two names, two values, values returned
C3_Witness ==
    /\ C3_Case
    /\ VarName = PyList(<<PyStr("a"), PyStr("b")>>)
    /\ last.values = PyList(<<PyInt(1), PyInt(2)>>)
    /\ last.out = Return(last.values)

--------------------------------------------------------------------------
C4_Case ==
    Processed /\ IsSequence(VarName) /\ Mismatch(VarName, last.values)

\* C4: with variable_name a sequence, process raises ValueError whenever the
\* number of names differs from the number of values (values without a
\* length included); the function is not called and the error is not
\* turned into a returned value.
C4_ArityMismatchRaises ==
    C4_Case => last.out = Raise("ValueError") /\ last.calls = <<>>

\* C4 witness: no function, two names, a value without a length: ValueError
C4_Witness ==
    /\ C4_Case
    /\ Function = PyNone
    /\ VarName = PyList(<<PyStr("a"), PyStr("b")>>)
    /\ ~Sized(last.values)
    /\ last.out = Raise("ValueError")

--------------------------------------------------------------------------
\* C5: Outcome(name, time) returns a TimeSeriesOutcome named name when time
\* is true and a ScalarOutcome named name when it is false, and warns in
\* both cases.
C5_OutcomeFollowsTime ==
    last.op = "Outcome" =>
        /\ last.out.tag = "return"
        /\ self # <<>>
        /\ self[1].cls = IF last.time THEN "TimeSeriesOutcome"
                         ELSE "ScalarOutcome"
        /\ self[1].attrs["name"] = PyStr(last.name)
        /\ last.warnings # <<>>

--------------------------------------------------------------------------
\* C6: constructing a TimeSeriesOutcome with kind MINIMIZE or MAXIMIZE (no
\* reducing callable can be supplied) raises ValueError; with kind INFO it
\* fails only when AbstractOutcome.__init__ does.
C6_TimeSeriesNeedsReduce ==
    last.op = "__init__" /\ last.cls = "TimeSeriesOutcome" =>
        IF last.kind # PyInt(INFO)
        THEN last.out = Raise("ValueError") /\ self = <<>>
        ELSE last.out =
                AbstractOutcomeInit(last.cls, PyStr(last.name), last.kind,
                                    last.vname, last.function).out

--------------------------------------------------------------------------
\* C7: constructing an outcome raises ValueError, and produces no object,
\* whenever variable_name is supplied and is neither a string nor a sequence
\* of strings (mixed sequences, numbers and falsy values included).
C7_InvalidVariableNameRejected ==
    last.op = "__init__" /\ last.vname # PyNone
                        /\ ~ValidVariableName(last.vname) =>
        last.out = Raise("ValueError") /\ self = <<>>

--------------------------------------------------------------------------
\* C8: in every state of a constructed outcome the stored variable_name is
\* absent, a string, or a sequence of strings.
C8_StoredVariableNameValid ==
    self # <<>> =>
        \/ self[1].attrs["_variable_name"] = PyNone
        \/ ValidVariableName(self[1].attrs["_variable_name"])

--------------------------------------------------------------------------
\* C9: a == b exactly when a and b are of the same class and every attribute
\* of either is an attribute of both with equal values; a == b and b == a
\* agree.
C9_EqualityIsStructural ==
    last.op = "__eq__" =>
        LET a == self[1]
            b == last.other[1]
        IN  /\ last.eq[1] =
                  (/\ a.cls = b.cls
                   /\ DOMAIN a.attrs = DOMAIN b.attrs
                   /\ \A key \in DOMAIN a.attrs \cup DOMAIN b.attrs :
                         a.attrs[key] = b.attrs[key])
            /\ last.eq[2] = last.eq[1]

\* C9 witness: two ScalarOutcome("x") with the same attributes compared equal
C9_Witness ==
    /\ last.op = "__eq__"
    /\ self[1] = Object("ScalarOutcome", PyStr("x"), PyInt(INFO), PyNone,
                         PyNone)
    /\ last.other = self
    /\ last.eq = <<TRUE, TRUE>>

--------------------------------------------------------------------------
C10_Case ==
    last.op = "create_outcomes" /\ {"name", "type"} \subseteq last.table.columns

\* C10: for a table with a name and a type column, create_outcomes returns
\* one outcome per row, in row order, the i-th named by row i and a
\* ScalarOutcome for type "scalar", a TimeSeriesOutcome for "timeseries",
\* when every row has one of the two types; otherwise it raises ValueError
\* and returns nothing.
C10_CreateOutcomesFollowsRows ==
    C10_Case =>
        LET rows == last.table.rows
        IN  IF \A k \in 1..Len(rows) : rows[k].type \in {"scalar", "timeseries"}
            THEN /\ last.out.tag = "return"
                 /\ Len(last.made) = Len(rows)
                 /\ \A k \in 1..Len(rows) :
                       /\ last.made[k].attrs["name"] = PyStr(rows[k].name)
                       /\ last.made[k].cls =
                             IF rows[k].type = "scalar" THEN "ScalarOutcome"
                             ELSE "TimeSeriesOutcome"
            ELSE last.out = Raise("ValueError") /\ last.made = <<>>

\* C10 witness: rows (x, scalar), (y, timeseries) gave a ScalarOutcome x and
\* a TimeSeriesOutcome y, in that order
C10_Witness ==
    /\ C10_Case
    /\ last.table.rows = <<[name |-> "x", type |-> "scalar"],
                           [name |-> "y", type |-> "timeseries"]>>
    /\ Len(last.made) = 2
    /\ last.made[1].cls = "ScalarOutcome"
    /\ last.made[2].cls = "TimeSeriesOutcome"

==========================================================================
